---- MODULE Spec2Model ----
(***************************************************************************)
(* cleanframe: clean_and_validate (core.py), validate_dataframe and        *)
(* validate_column (validators.py), convert_dtype and apply_constraints    *)
(* (transformers.py), apply_custom_validator (utils.py).                   *)
(*                                                                         *)
(* A DataFrame is a sequence of rows [lab, a, b] (lab is the index label,  *)
(* a and b the two columns) plus the set of columns that hold a pandas     *)
(* Categorical.  A boolean Series is a function from index labels to       *)
(* BOOLEAN.  Python objects that are shared by reference (the caller's     *)
(* table and the working table) live in a heap.                            *)
(***************************************************************************)
EXTENDS Integers, Sequences, FiniteSets, TLC

VARIABLES
    heap,          \* the DataFrame objects: "in" the caller's, "work" the engine's
    cur,           \* the object df_cleaned is bound to
    schema,        \* the Schema of the call
    pc,            \* where clean_and_validate is
    xi,            \* the next check of cross_validations
    ci,            \* the next entry of schema.rules
    rows_to_drop,  \* core.py's accumulated boolean Series
    report,        \* the list of messages
    faulty,        \* history: the columns whose rule had a stage raise
    stages,        \* history: the stages of the latest validate_column call
    flagged,       \* history: rows a value check reported as marked for drop
    xfailed,       \* history: rows a cross-validation reported as dropped
    evald,         \* history: the checks evaluated, in order
    entered,       \* history: the index when per-column validation began
    kept,          \* history: the labels the final removal kept
    faults,        \* history: exceptions raised so far
    steplog,       \* history: what the latest step did
    run,           \* 1, or 2 for a second call on the first call's output
    input0,        \* history: the caller's table as it was passed in
    out1           \* history: the rows and the faults of the first call

vars == <<heap, cur, schema, pc, xi, ci, rows_to_drop, report, stages, flagged,
          xfailed, evald, entered, kept, faults, steplog, run, input0, out1, faulty>>

(***************************************************************************)
(* Bounds of the input families.                                           *)
(***************************************************************************)
MaxRows == 2
\* rows of the tables of the uniqueness family
MaxRowsU == 5

(***************************************************************************)
(* Cell values: a missing value (None / NaN), a Python int, a Python str.  *)
(***************************************************************************)
Null == <<"null", 0>>
IntV(n) == <<"int", n>>
StrV(s) == <<"str", s>>
IsNull(v) == v[1] = "null"
IsInt(v) == v[1] = "int"
IsStr(v) == v[1] = "str"

\* str(n) for the ints of the model, and the same digits with a leading zero
DecNames == <<"1", "2", "3", "4">>
ZeroNames == <<"01", "02", "03", "04">>
Digits == {DecNames[i] : i \in DOMAIN DecNames} \cup {ZeroNames[i] : i \in DOMAIN ZeroNames}

\* Series.astype(str), one element: a missing value becomes the text "nan"
AsStr(v) ==
    IF IsNull(v) THEN StrV("nan")
    ELSE IF IsInt(v) THEN StrV(DecNames[v[2]])
    ELSE v

\* pd.to_numeric(errors='coerce'), one element: text that is no number becomes NaN
ToNumeric(v) ==
    IF IsStr(v)
    THEN IF \E i \in DOMAIN DecNames : DecNames[i] = v[2]
         THEN IntV(CHOOSE i \in DOMAIN DecNames : DecNames[i] = v[2])
         ELSE IF \E i \in DOMAIN ZeroNames : ZeroNames[i] = v[2]
         THEN IntV(CHOOSE i \in DOMAIN ZeroNames : ZeroNames[i] = v[2])
         ELSE Null
    ELSE v

\* Series.astype('string'), one element: missing stays missing, the rest is text
ToStringDtype(v) == IF IsInt(v) THEN StrV(DecNames[v[2]]) ELSE v

(***************************************************************************)
(* Frames.                                                                 *)
(***************************************************************************)
Columns == {"a", "b"}

Labels(f) == {f.rows[i].lab : i \in DOMAIN f.rows}
RowOf(f, l) == f.rows[CHOOSE i \in DOMAIN f.rows : f.rows[i].lab = l]
Cell(f, l, c) == RowOf(f, l)[c]
ColVals(f, c) == {f.rows[i][c] : i \in DOMAIN f.rows}
Col(f, c) == [l \in Labels(f) |-> Cell(f, l, c)]
PosOf(f, l) == CHOOSE i \in DOMAIN f.rows : f.rows[i].lab = l

\* df.loc[mask, col] = value (in place)
SetWhere(f, c, mask, v) ==
    [f EXCEPT !.rows = [i \in DOMAIN f.rows |->
        IF f.rows[i].lab \in mask THEN [f.rows[i] EXCEPT ![c] = v] ELSE f.rows[i]]]

\* df[col] = g(df[col]) elementwise (in place)
MapCol(f, c, G(_)) ==
    [f EXCEPT !.rows = [i \in DOMAIN f.rows |-> [f.rows[i] EXCEPT ![c] = G(f.rows[i][c])]]]

\* df.loc[mask] / df[mask]: a new frame with the rows whose label is in keep
Select(f, keep) ==
    LET In(r) == r.lab \in keep
    IN [f EXCEPT !.rows = SelectSeq(f.rows, In)]

\* DataFrame.reset_index(drop=True): labels 0..n-1 in row order
ResetIndex(f) ==
    [f EXCEPT !.rows = [i \in DOMAIN f.rows |-> [f.rows[i] EXCEPT !.lab = i - 1]]]

\* rows equal on every column of cols
SameOn(r, s, cols) == \A c \in cols : r[c] = s[c]

\* DataFrame.duplicated(subset=cols, keep='first') as a set of labels
Duplicated(f, cols) ==
    {f.rows[i].lab : i \in {j \in DOMAIN f.rows :
        \E k \in 1..(j - 1) : SameOn(f.rows[k], f.rows[j], cols)}}

\* DataFrame.duplicated(subset=cols, keep=False) as a set of labels
DuplicatedAll(f, cols) ==
    {f.rows[i].lab : i \in {j \in DOMAIN f.rows :
        \E k \in DOMAIN f.rows : k # j /\ SameOn(f.rows[k], f.rows[j], cols)}}

\* a report entry appended by log_info / log_warning / log_error
Msg(lvl, text, n) == [lvl |-> lvl, text |-> text, n |-> n]

(***************************************************************************)
(* validate_column and the stage functions it calls.  Each stage threads a *)
(* context x: the frame (mutated in place), the rows flagged so far, the   *)
(* messages appended, a log of the stages that ran, whether an exception   *)
(* is propagating, and how many exceptions were raised.                    *)
(***************************************************************************)
New(f) == [f |-> f, mask |-> {}, rep |-> <<>>, log |-> <<>>, exc |-> FALSE, faults |-> 0]

Entry(stage, f, f2, c, mask, raised) ==
    [stage |-> stage, seen |-> Labels(f), mask |-> mask, before |-> Col(f, c),
     after |-> Col(f2, c), raised |-> raised]

\* Ran with the flagged rows removed from the table at once
RanDropNow(x, stage, c, f2, mask, msgs) ==
    [x EXCEPT !.f = Select(f2, Labels(f2) \ mask), !.mask = @ \cup mask, !.rep = @ \o msgs,
              !.log = Append(@, Entry(stage, x.f, f2, c, mask, FALSE))]

\* a stage ran to its end: frame f2, rows in mask flagged, msgs appended
Ran(x, stage, c, f2, mask, msgs) ==
    [x EXCEPT !.f = f2, !.mask = @ \cup mask, !.rep = @ \o msgs,
              !.log = Append(@, Entry(stage, x.f, f2, c, mask, FALSE))]

\* a stage raised and its own handler caught it: msgs holds the error message
Caught(x, stage, c, msgs) ==
    [x EXCEPT !.rep = @ \o msgs, !.faults = @ + 1,
              !.log = Append(@, Entry(stage, x.f, x.f, c, {}, TRUE))]

\* a stage raised and no handler of the stage caught it
Escaped(x, stage, c, f2) ==
    [x EXCEPT !.f = f2, !.exc = TRUE, !.faults = @ + 1,
              !.log = Append(@, Entry(stage, x.f, f2, c, {}, TRUE))]

\* rule.fillna written verbatim into a cell (None, a literal, or the strategy's name)
Verbatim(fillna) ==
    CASE fillna.kind = "none" -> Null
      [] fillna.kind = "lit" -> fillna.v
      [] fillna.kind = "agg" -> StrV(fillna.fn)

\* item assignment into a Categorical column raises for a value that is no category
SetItemRaises(f, c, v) == c \in f.cat /\ ~IsNull(v) /\ v \notin ColVals(f, c)

\* an ordering comparison of the column with a number raises (text, or an
\* unordered Categorical)
CmpRaises(f, c) == c \in f.cat \/ \E v \in ColVals(f, c) : IsStr(v)

SetMin(S) == CHOOSE m \in S : \A n \in S : m <= n
SetMax(S) == CHOOSE m \in S : \A n \in S : m >= n

\* df[col].min() / df[col].max(): [exc, v]
AggValue(f, c, fn) ==
    LET ints == {v[2] : v \in {w \in ColVals(f, c) : IsInt(w)}}
    IN IF CmpRaises(f, c) THEN [exc |-> TRUE, v |-> Null]
       ELSE IF ints = {} THEN [exc |-> FALSE, v |-> Null]
       ELSE [exc |-> FALSE, v |-> IntV(IF fn = "min" THEN SetMin(ints) ELSE SetMax(ints))]

\* validators.py: "Handle missing values"
HandleNulls(x, c, rule) ==
    LET f == x.f
        null_mask == {l \in Labels(f) : IsNull(Cell(f, l, c))}
        n == Cardinality(null_mask)
        agg == rule.fillna.kind = "agg"
        a == AggValue(f, c, rule.fillna.fn)
        failed == agg /\ a.exc
        fill_value == IF agg THEN a.v ELSE rule.fillna.v
        has_fill == rule.fillna.kind # "none" /\ ~failed
        err == IF failed THEN <<Msg("error", "Failed to compute fill", 0)>> ELSE <<>>
        y == IF failed THEN [x EXCEPT !.faults = @ + 1] ELSE x
    IN IF x.exc THEN x
       ELSE IF n = 0 \/ rule.allow_null THEN Ran(x, "null", c, f, {}, <<>>)
       ELSE IF rule.drop_if_invalid
       THEN Ran(x, "null", c, f, null_mask, <<Msg("warning", "null(s) marked for drop", n)>>)
       ELSE IF ~has_fill THEN Ran(y, "null", c, f, {}, err)
       ELSE IF SetItemRaises(f, c, fill_value) THEN Escaped(x, "null", c, f)
       ELSE Ran(y, "null", c, SetWhere(f, c, null_mask, fill_value), {},
                err \o <<Msg("info", "Filled null(s)", n)>>)

\* validators.py: "Regex validation"
RegexStage(x, c, rule) ==
    LET f == x.f
        invalid_mask == {l \in Labels(f) : AsStr(Cell(f, l, c))[2] \notin rule.regex.m}
        n == Cardinality(invalid_mask)
    IN IF x.exc \/ rule.regex.kind = "none" THEN x
       ELSE IF rule.regex.kind = "bad"
       THEN Caught(x, "regex", c, <<Msg("error", "Invalid regex pattern", 0)>>)
       ELSE IF n = 0 THEN Ran(x, "regex", c, f, {}, <<>>)
       ELSE IF rule.drop_if_invalid
       THEN Ran(x, "regex", c, f, invalid_mask,
                <<Msg("warning", "failed regex validation and were marked for drop", n)>>)
       ELSE IF SetItemRaises(f, c, Verbatim(rule.fillna)) THEN Escaped(x, "regex", c, f)
       ELSE Ran(x, "regex", c, SetWhere(f, c, invalid_mask, Verbatim(rule.fillna)), {},
                <<Msg("info", "Replaced value(s) failing regex", n)>>)

\* x after a called stage function returned y normally or raised: the frame is
\* shared, the function's mask is OR-ed in only when it returned
Merge(x, y) ==
    [f |-> y.f, mask |-> IF y.exc THEN x.mask ELSE x.mask \cup y.mask,
     rep |-> x.rep \o y.rep, log |-> x.log \o y.log, exc |-> y.exc,
     faults |-> x.faults + y.faults]

\* transformers.py: convert_dtype
convert_dtype(f, c, rule) ==
    LET x == New(f)
        Conv(v) == IF rule.dtype = "int" THEN ToNumeric(v) ELSE ToStringDtype(v)
        invalid_type == {l \in Labels(f) : IsNull(Conv(Cell(f, l, c))) /\ ~IsNull(Cell(f, l, c))}
        n == Cardinality(invalid_type)
        f2 == [MapCol(f, c, Conv) EXCEPT !.cat = @ \ {c}]
    IN IF rule.dtype = "none" THEN x
       ELSE IF rule.dtype \notin {"int", "string"}
       THEN Caught(x, "dtype", c, <<Msg("error", "Failed type conversion", 0)>>)
       ELSE IF n = 0 THEN Ran(x, "dtype", c, f2, {}, <<>>)
       ELSE IF rule.drop_if_invalid
       THEN Ran(x, "dtype", c, f2, invalid_type,
                <<Msg("warning", "invalid type(s) marked for drop", n)>>)
       ELSE Ran(x, "dtype", c, f2, {}, <<Msg("info", "value(s) coerced to NaN", n)>>)

\* CheckMin that marks the rows below min for drop without asking the mode
CheckMinAlwaysDrop(x, c, rule) ==
    LET f == x.f
        below_min == {l \in Labels(f) : IsInt(Cell(f, l, c)) /\ Cell(f, l, c)[2] < rule.min[1]}
        n == Cardinality(below_min)
    IN IF x.exc \/ rule.min = <<>> THEN x
       ELSE IF CmpRaises(f, c) THEN Escaped(x, "min", c, f)
       ELSE IF n = 0 THEN Ran(x, "min", c, f, {}, <<>>)
       ELSE Ran(x, "min", c, f, below_min, <<Msg("warning", "below min marked for drop", n)>>)

\* transformers.py: apply_constraints, "if rule.min is not None"
CheckMin(x, c, rule) ==
    LET f == x.f
        below_min == {l \in Labels(f) : IsInt(Cell(f, l, c)) /\ Cell(f, l, c)[2] < rule.min[1]}
        n == Cardinality(below_min)
    IN IF x.exc \/ rule.min = <<>> THEN x
       ELSE IF CmpRaises(f, c) THEN Escaped(x, "min", c, f)
       ELSE IF n = 0 THEN Ran(x, "min", c, f, {}, <<>>)
       ELSE IF rule.drop_if_invalid
       THEN Ran(x, "min", c, f, below_min, <<Msg("warning", "below min marked for drop", n)>>)
       ELSE Ran(x, "min", c, SetWhere(f, c, below_min, IntV(rule.min[1])), {},
                <<Msg("info", "Replaced value(s) below min", n)>>)

\* transformers.py: apply_constraints, "if rule.max is not None"
CheckMax(x, c, rule) ==
    LET f == x.f
        above_max == {l \in Labels(f) : IsInt(Cell(f, l, c)) /\ Cell(f, l, c)[2] > rule.max[1]}
        n == Cardinality(above_max)
    IN IF x.exc \/ rule.max = <<>> THEN x
       ELSE IF CmpRaises(f, c) THEN Escaped(x, "max", c, f)
       ELSE IF n = 0 THEN Ran(x, "max", c, f, {}, <<>>)
       ELSE IF rule.drop_if_invalid
       THEN Ran(x, "max", c, f, above_max, <<Msg("warning", "above max marked for drop", n)>>)
       ELSE Ran(x, "max", c, SetWhere(f, c, above_max, IntV(rule.max[1])), {},
                <<Msg("info", "Replaced value(s) above max", n)>>)

\* pd.Categorical(df[col], categories=allowed) and remove_unused_categories
AsCategorical(f, c, allowed) ==
    LET G(v) == IF v \in allowed THEN v ELSE Null
    IN [MapCol(f, c, G) EXCEPT !.cat = @ \cup {c}]

\* transformers.py: apply_constraints, "if rule.allowed_values"
CheckAllowed(x, c, rule) ==
    LET f == x.f
        not_allowed == {l \in Labels(f) : Cell(f, l, c) \notin rule.allowed_values}
        n == Cardinality(not_allowed)
        filled == SetWhere(f, c, not_allowed, Verbatim(rule.fillna))
    IN IF x.exc \/ rule.allowed_values = {} THEN x
       ELSE IF n = 0 THEN Ran(x, "allowed", c, AsCategorical(f, c, rule.allowed_values), {}, <<>>)
       ELSE IF rule.drop_if_invalid
       THEN Ran(x, "allowed", c, AsCategorical(f, c, rule.allowed_values), not_allowed,
                <<Msg("warning", "disallowed value(s) marked for drop", n)>>)
       ELSE IF SetItemRaises(f, c, Verbatim(rule.fillna)) THEN Escaped(x, "allowed", c, f)
       ELSE Ran(x, "allowed", c, AsCategorical(filled, c, rule.allowed_values), {},
                <<Msg("info", "Replaced disallowed value(s)", n)>>)

\* transformers.py: apply_constraints
apply_constraints(f, c, rule) ==
    CheckAllowed(CheckMax(CheckMin(New(f), c, rule), c, rule), c, rule)

\* what rule.custom_validator(value) does: "T", "F" or "raise"
CallValidator(name, v) ==
    CASE name = "gt1" -> IF IsStr(v) THEN "raise"
                         ELSE IF IsInt(v) /\ v[2] > 1 THEN "T" ELSE "F"
      [] name = "isint" -> IF IsInt(v) THEN "T" ELSE "F"
      [] OTHER -> "raise"

\* apply_custom_validator without its try: the validator's exception leaves it
apply_custom_validator_no_try(f, c, rule, quirk) ==
    LET x == New(f)
        name == rule.custom_validator
        raises == (c \in f.cat /\ quirk)
                  \/ \E l \in Labels(f) : CallValidator(name, Cell(f, l, c)) = "raise"
        invalid == {l \in Labels(f) : CallValidator(name, Cell(f, l, c)) = "F"}
        n == Cardinality(invalid)
    IN IF name = "none" THEN x
       ELSE IF raises THEN Escaped(x, "custom", c, f)
       ELSE IF n = 0 THEN Ran(x, "custom", c, f, {}, <<>>)
       ELSE IF rule.drop_if_invalid
       THEN Ran(x, "custom", c, f, invalid,
                <<Msg("warning", "failed custom validation and were marked for drop", n)>>)
       ELSE IF SetItemRaises(f, c, Verbatim(rule.fillna)) THEN Escaped(x, "custom", c, f)
       ELSE Ran(x, "custom", c, SetWhere(f, c, invalid, Verbatim(rule.fillna)), {},
                <<Msg("info", "Replaced invalid custom values", n)>>)

\* utils.py: apply_custom_validator.  quirk: mapping the validator over a
\* Categorical column gives a result that ~ cannot invert
apply_custom_validator(f, c, rule, quirk) ==
    LET x == New(f)
        name == rule.custom_validator
        raises == (c \in f.cat /\ quirk)
                  \/ \E l \in Labels(f) : CallValidator(name, Cell(f, l, c)) = "raise"
        invalid == {l \in Labels(f) : CallValidator(name, Cell(f, l, c)) = "F"}
        n == Cardinality(invalid)
        err == <<Msg("error", "Error applying custom validator", 0)>>
    IN IF name = "none" THEN x
       ELSE IF raises THEN Caught(x, "custom", c, err)
       ELSE IF n = 0 THEN Ran(x, "custom", c, f, {}, <<>>)
       ELSE IF rule.drop_if_invalid
       THEN Ran(x, "custom", c, f, invalid,
                <<Msg("warning", "failed custom validation and were marked for drop", n)>>)
       ELSE IF SetItemRaises(f, c, Verbatim(rule.fillna)) THEN Caught(x, "custom", c, err)
       ELSE Ran(x, "custom", c, SetWhere(f, c, invalid, Verbatim(rule.fillna)), {},
                <<Msg("info", "Replaced invalid custom values", n)>>)

\* the labels rule.resolve_duplicates keeps: groupby(col) leaves the group of
\* missing values out and the resolver returns the last row of each group
ResolverKeeps(f, c, dup) ==
    {l \in dup : ~IsNull(Cell(f, l, c))
                 /\ \A m \in dup : Cell(f, m, c) = Cell(f, l, c) => PosOf(f, m) <= PosOf(f, l)}

\* KeepFirst with keep='last'
KeepLast(f, c, dup) ==
    {l \in dup : \A m \in dup : Cell(f, m, c) = Cell(f, l, c) => PosOf(f, m) <= PosOf(f, l)}

\* KeepFirst that keeps every row of a duplicate group
KeepGroup(f, c, dup) == dup

\* df.loc[duplicate_mask].drop_duplicates(subset=[col], keep='first').index
KeepFirst(f, c, dup) == dup \ Duplicated(f, {c})

\* UniqueStage that looks for duplicates among the rows not yet flagged
UniqueStageUnflagged(x, c, rule) ==
    LET f == x.f
        g == Select(f, Labels(f) \ x.mask)
        duplicate_mask == DuplicatedAll(g, {c})
        drop_duplicates_mask == duplicate_mask \ KeepFirst(g, c, duplicate_mask)
    IN IF x.exc \/ ~rule.unique THEN x
       ELSE IF duplicate_mask = {} THEN Ran(x, "unique", c, f, {}, <<>>)
       ELSE Ran(x, "unique", c, f, drop_duplicates_mask,
                <<Msg("warning", "Found duplicate value(s)", Cardinality(duplicate_mask)),
                  Msg("info", "Marked duplicate row(s) for removal",
                      Cardinality(drop_duplicates_mask))>>)

\* validators.py: "Unique constraint handling"
UniqueStage(x, c, rule) ==
    LET f == x.f
        duplicate_mask == DuplicatedAll(f, {c})
        keep_indices == IF rule.resolve_duplicates = "none"
                        THEN KeepFirst(f, c, duplicate_mask)
                        ELSE ResolverKeeps(f, c, duplicate_mask)
        drop_duplicates_mask == duplicate_mask \ keep_indices
    IN IF x.exc \/ ~rule.unique THEN x
       ELSE IF duplicate_mask = {} THEN Ran(x, "unique", c, f, {}, <<>>)
       ELSE IF rule.resolve_duplicates \notin {"none", "last"}
               /\ \E l \in duplicate_mask : ~IsNull(Cell(f, l, c))
       THEN Escaped([x EXCEPT !.rep = Append(@, Msg("warning", "Found duplicate value(s)",
                                                    Cardinality(duplicate_mask)))],
                    "unique", c, f)
       ELSE Ran(x, "unique", c, f, drop_duplicates_mask,
                <<Msg("warning", "Found duplicate value(s)", Cardinality(duplicate_mask)),
                  Msg("info", "Marked duplicate row(s) for removal",
                      Cardinality(drop_duplicates_mask))>>)

\* ColumnHandler that lets the exception pass
NoColumnHandler(x) == x

\* validators.py: the "except Exception" of validate_column
ColumnHandler(x) ==
    IF x.exc
    THEN [x EXCEPT !.exc = FALSE,
                   !.rep = Append(@, Msg("error", "Unexpected error handling column", 0))]
    ELSE x

\* validators.py: "df, type_drop_mask = convert_dtype(...); rows_to_drop |= type_drop_mask"
DtypeStep(x, c, rule) == IF x.exc THEN x ELSE Merge(x, convert_dtype(x.f, c, rule))

\* validators.py: "df, constraint_drop_mask = apply_constraints(...)" and the OR
ConstraintStep(x, c, rule) == IF x.exc THEN x ELSE Merge(x, apply_constraints(x.f, c, rule))

\* validators.py: "df, custom_drop_mask = apply_custom_validator(...)" and the OR
CustomStep(x, c, rule, quirk) ==
    IF x.exc THEN x ELSE Merge(x, apply_custom_validator(x.f, c, rule, quirk))

\* validate_column with the uniqueness stage before the corrections
validate_column_unique_first(f, c, rule, quirk) ==
    ColumnHandler(
      CustomStep(
        ConstraintStep(
          DtypeStep(
            RegexStage(
              HandleNulls(UniqueStage(New(f), c, rule), c, rule),
              c, rule),
            c, rule),
          c, rule),
        c, rule, quirk))

\* validate_column with the pattern checked after the type conversion
validate_column_cast_first(f, c, rule, quirk) ==
    ColumnHandler(
      UniqueStage(
        CustomStep(
          ConstraintStep(
            RegexStage(
              DtypeStep(
                HandleNulls(New(f), c, rule),
                c, rule),
              c, rule),
            c, rule),
          c, rule, quirk),
        c, rule))

\* validators.py: validate_column; the result's f and mask are what it returns
validate_column(f, c, rule, quirk) ==
    ColumnHandler(
      UniqueStage(
        CustomStep(
          ConstraintStep(
            DtypeStep(
              RegexStage(
                HandleNulls(New(f), c, rule),
                c, rule),
              c, rule),
            c, rule),
          c, rule, quirk),
        c, rule))

(***************************************************************************)
(* validate_dataframe.  The expression engine (DataFrame.eval, eval) is a  *)
(* black box: an expression is known by its text, by whether evaluating it *)
(* raises and by the rows it holds for.                                    *)
(***************************************************************************)
\* DataFrame.eval(expr) raises
ExprRaises(e, f) ==
    CASE e = "a <= b" -> CmpRaises(f, "a") \/ CmpRaises(f, "b")
      [] e = "a > 1" -> CmpRaises(f, "a")
      [] e = "b > 1" -> CmpRaises(f, "b")
      [] e = "a.notnull()" -> FALSE
      [] OTHER -> TRUE

\* the labels of the rows DataFrame.eval(expr) is True for
ExprMask(e, f) ==
    LET Holds(r) ==
            CASE e = "a <= b" -> IsInt(r.a) /\ IsInt(r.b) /\ r.a[2] <= r.b[2]
              [] e = "a > 1" -> IsInt(r.a) /\ r.a[2] > 1
              [] e = "b > 1" -> IsInt(r.b) /\ r.b[2] > 1
              [] e = "a.notnull()" -> ~IsNull(r.a)
              [] OTHER -> FALSE
    IN {f.rows[i].lab : i \in {j \in DOMAIN f.rows : Holds(f.rows[j])}}

\* eval(check, {}, {"df": df}) raises
AggRaises(e, f) == e \notin {"len(df) > 1", "df['a'].notnull().all()"}

\* the truth value eval(check, {}, {"df": df}) returns
AggResult(e, f) ==
    IF e = "len(df) > 1" THEN Len(f.rows) > 1
    ELSE \A v \in ColVals(f, "a") : ~IsNull(v)

\* what validate_dataframe or one of its checks did: the frame df is bound to
\* afterwards, whether that is a new object, the messages, whether an exception
\* leaves the step, the rows a drop was reported for
TRes(f, new, rep, exc, nf, failed) ==
    [f |-> f, new |-> new, rep |-> rep, exc |-> exc, faults |-> nf, failed |-> failed]

\* validators.py: row count, duplicates, unique keys, expected columns
Structural(f, r) ==
    LET n == Len(f.rows)
        m1 == IF r.min_rows # <<>> /\ n < r.min_rows[1]
              THEN <<Msg("warning", "fewer rows than min_rows", n)>> ELSE <<>>
        m2 == IF r.max_rows # <<>> /\ n > r.max_rows[1]
              THEN <<Msg("warning", "more rows than max_rows", n)>> ELSE <<>>
        dup == Duplicated(f, Columns)
        dedup == r.no_duplicates /\ dup # {}
        f2 == IF dedup THEN Select(f, Labels(f) \ dup) ELSE f
        m3 == IF dedup THEN <<Msg("info", "Removed duplicate row(s)", Cardinality(dup))>>
              ELSE <<>>
        keys == {r.unique_keys[i] : i \in DOMAIN r.unique_keys}
        keyerr == keys # {} /\ ~(keys \subseteq Columns)
        dup_keys == Duplicated(f2, keys)
        m4 == IF keys # {} /\ dup_keys # {}
              THEN <<Msg("warning", "Unique key constraint violated", Cardinality(dup_keys))>>
              ELSE <<>>
        exp == {r.expected_columns[i] : i \in DOMAIN r.expected_columns}
        m5 == IF exp # {} /\ exp \ Columns # {}
              THEN <<Msg("warning", "Missing expected columns", Cardinality(exp \ Columns))>>
              ELSE <<>>
        m6 == IF exp # {} /\ Columns \ exp # {}
              THEN <<Msg("warning", "Unexpected extra columns", Cardinality(Columns \ exp))>>
              ELSE <<>>
    IN IF keyerr THEN TRes(f2, dedup, m1 \o m2 \o m3, TRUE, 1, {})
       ELSE TRes(f2, dedup, m1 \o m2 \o m3 \o m4 \o m5 \o m6, FALSE, 0, {})

\* DropFailing that logs the drop and keeps every row
KeepAll(f, invalid) == f

\* WarnOnly that removes the failing rows
DropAnyway(f, invalid) == Select(f, Labels(f) \ invalid)

\* CheckHandler that lets the exception pass
NoCheckHandler(t) == t

\* validators.py: df = df.loc[mask].copy() / df = df.loc[~invalid_mask].copy()
DropFailing(f, invalid) == Select(f, Labels(f) \ invalid)

\* validators.py: the branches of a failed check that only log a warning
WarnOnly(f, invalid) == f

\* validators.py: the body of "for check in df_rule.cross_validations"
CheckBody(f, check) ==
    LET drop == check.action = "drop"
        cmp_bad == Labels(f) \ ExprMask(check.cond, f)
        cnd_bad == ExprMask(check.cond, f) \ ExprMask(check.then, f)
        Row(bad) ==
            IF bad = {} THEN TRes(f, FALSE, <<>>, FALSE, 0, {})
            ELSE IF drop
            THEN TRes(DropFailing(f, bad), TRUE,
                      <<Msg("info", "Dropped row(s) failing check", Cardinality(bad))>>,
                      FALSE, 0, bad)
            ELSE TRes(WarnOnly(f, bad), WarnOnly(f, bad) # f,
                      <<Msg("warning", "Check failed", 0)>>, FALSE, 0, {})
        Raise == TRes(f, FALSE, <<>>, TRUE, 1, {})
    IN CASE check.type = "comparison" ->
              IF ExprRaises(check.cond, f) THEN Raise ELSE Row(cmp_bad)
         [] check.type = "aggregate" ->
              IF AggRaises(check.cond, f) THEN Raise
              ELSE IF AggResult(check.cond, f) THEN TRes(f, FALSE, <<>>, FALSE, 0, {})
              ELSE TRes(WarnOnly(f, Labels(f)), WarnOnly(f, Labels(f)) # f,
                        <<Msg("warning", IF drop THEN "Aggregate check failed and cannot drop rows"
                                         ELSE "Aggregate check failed", 0)>>, FALSE, 0, {})
         [] check.type = "conditional" ->
              IF ExprRaises(check.cond, f) \/ ExprRaises(check.then, f) THEN Raise
              ELSE Row(cnd_bad)
         [] OTHER -> TRes(f, FALSE, <<>>, FALSE, 0, {})

\* validators.py: the "except Exception" inside the loop over the checks
CheckHandler(t) ==
    IF t.exc
    THEN [t EXCEPT !.exc = FALSE,
                   !.rep = Append(@, Msg("error", "Error evaluating cross-validation", 0))]
    ELSE t

\* one turn of the loop over df_rule.cross_validations
CrossCheck(f, check) == CheckHandler(CheckBody(f, check))

\* validators.py: the outer "except Exception" of validate_dataframe
FrameHandler(t) ==
    IF t.exc
    THEN [t EXCEPT !.exc = FALSE,
                   !.rep = Append(@, Msg("error", "Unexpected error in DataFrame validation", 0))]
    ELSE t

(***************************************************************************)
(* clean_and_validate.                                                     *)
(***************************************************************************)
\* schema.py: the defaults of ColumnRule and DataFrameRule
NoFill == [kind |-> "none", v |-> Null, fn |-> ""]
Lit(v) == [kind |-> "lit", v |-> v, fn |-> ""]
Agg(fn) == [kind |-> "agg", v |-> Null, fn |-> fn]
NoRegex == [kind |-> "none", m |-> {}]
BadRegex == [kind |-> "bad", m |-> {}]
Regex(m) == [kind |-> "ok", m |-> m]
ColumnRule ==
    [dtype |-> "none", allow_null |-> TRUE, drop_if_invalid |-> FALSE, fillna |-> NoFill,
     min |-> <<>>, max |-> <<>>, allowed_values |-> {}, regex |-> NoRegex,
     custom_validator |-> "none", unique |-> FALSE, resolve_duplicates |-> "none"]
DataFrameRule ==
    [min_rows |-> <<>>, max_rows |-> <<>>, no_duplicates |-> FALSE, unique_keys |-> <<>>,
     expected_columns |-> <<>>, cross_validations |-> <<>>]
Check(type, action, cond, then) ==
    [type |-> type, action |-> action, cond |-> cond, then |-> then]

EmptyFrame == [rows |-> <<>>, cat |-> {}]

\* Series that numbers the rows from zero instead of taking the table's index
SeriesByPosition(f, mask) ==
    [l \in 0..(Len(f.rows) - 1) |-> f.rows[l + 1].lab \in mask]

\* pd.Series(False, index=df.index) with the rows of mask set
Series(f, mask) == [l \in Labels(f) |-> l \in mask]
Flagged(s) == {l \in DOMAIN s : s[l]}

\* OrAlign as a plain assignment, rows_to_drop = other
OrAssign(s, t) == [l \in DOMAIN s |-> l \in DOMAIN t /\ t[l]]

\* OrAlign that pairs the two masks by position, not by label
OrByPosition(s, t) ==
    [l \in DOMAIN s |->
        s[l] \/ \E m \in DOMAIN t : t[m] /\ Cardinality({j \in DOMAIN t : j < m}) = l]

\* rows_to_drop |= other: the result keeps the index of rows_to_drop; a label
\* the other Series lacks counts as False
OrAlign(s, t) == [l \in DOMAIN s |-> s[l] \/ (l \in DOMAIN t /\ t[l])]

\* CopyTarget without the copy: df_cleaned = df
CopyAlias(src) == src

\* core.py: df.copy() gives a new object
CopyTarget(src) == "work"

\* where the column loop of core.py goes after validate_dataframe
\* AfterTable that validates the table once more
TableAgain == "table"

AfterTable == IF Len(schema.rules) = 0 THEN "drop" ELSE "cols"

NoStages == [col |-> "", rule |-> ColumnRule, log |-> <<>>, mask |-> {}]
NoStep == [kind |-> "none", idx |-> 0, raised |-> FALSE, before |-> EmptyFrame,
           after |-> EmptyFrame, gone |-> {}]
Step(kind, idx, raised, before, after, gone) ==
    [kind |-> kind, idx |-> idx, raised |-> raised, before |-> before, after |-> after,
     gone |-> gone]

InitWith(t, s) ==
    /\ heap = [in |-> t, work |-> EmptyFrame]
    /\ cur = "in"
    /\ schema = s
    /\ pc = "start"
    /\ xi = 1
    /\ ci = 1
    /\ rows_to_drop = <<>>
    /\ report = <<>>
    /\ stages = NoStages
    /\ flagged = {}
    /\ xfailed = {}
    /\ evald = <<>>
    /\ entered = {}
    /\ kept = {}
    /\ faults = 0
    /\ steplog = NoStep
    /\ run = 1
    /\ input0 = t
    /\ out1 = [n |-> 0, faults |-> 0, given |-> 0]
    /\ faulty = {}

\* core.py: df_cleaned = df.copy(); rows_to_drop = pd.Series(False, ...); report = []
CopyInput ==
    /\ pc = "start"
    /\ LET t == CopyTarget("in")
       IN /\ heap' = [heap EXCEPT ![t] = heap["in"]]
          /\ cur' = t
          /\ steplog' = Step("copy", 0, FALSE, heap["in"], heap["in"], {})
    /\ rows_to_drop' = Series(heap["in"], {})
    /\ report' = <<>>
    /\ pc' = "table"
    /\ UNCHANGED <<schema, xi, ci, stages, flagged, xfailed, evald, entered, kept, faults,
                   run, input0, out1, faulty>>

\* core.py "if schema.dataframe_rule" and validators.py validate_dataframe up to
\* the loop over the cross-validations
ValidateDataframe ==
    /\ pc = "table"
    /\ LET f == heap[cur]
           t == IF schema.has_df THEN Structural(f, schema.dataframe_rule)
                ELSE TRes(f, FALSE, <<>>, FALSE, 0, {})
           h == FrameHandler(t)
           n == IF schema.has_df /\ ~t.exc THEN Len(schema.dataframe_rule.cross_validations)
                ELSE 0
       IN /\ heap' = IF h.new THEN [heap EXCEPT !.work = h.f] ELSE heap
          /\ cur' = IF h.new THEN "work" ELSE cur
          /\ report' = report \o h.rep
          /\ faults' = faults + h.faults
          /\ pc' = IF h.exc THEN "raised" ELSE IF n > 0 THEN "cross" ELSE AfterTable
          /\ steplog' = Step("table", 0, t.exc, f, h.f, {})
          /\ entered' = Labels(h.f)
    /\ UNCHANGED <<schema, xi, ci, rows_to_drop, stages, flagged, xfailed, evald, kept,
                   run, input0, out1, faulty>>

\* validators.py: one check of the loop over df_rule.cross_validations; an
\* exception that leaves the loop ends validate_dataframe in its outer handler
CrossValidation ==
    /\ pc = "cross"
    /\ LET f == heap[cur]
           checks == schema.dataframe_rule.cross_validations
           t == CrossCheck(f, checks[xi])
           h == FrameHandler(t)
       IN /\ heap' = IF h.new THEN [heap EXCEPT !.work = h.f] ELSE heap
          /\ cur' = IF h.new THEN "work" ELSE cur
          /\ report' = report \o h.rep
          /\ faults' = faults + h.faults
          /\ xfailed' = xfailed \cup h.failed
          /\ pc' = IF h.exc THEN "raised"
                   ELSE IF t.exc \/ xi = Len(checks) THEN AfterTable ELSE "cross"
          /\ steplog' = Step("check", xi, h.faults > 0, f, h.f, xfailed)
          /\ entered' = Labels(h.f)
    /\ evald' = Append(evald, xi)
    /\ xi' = xi + 1
    /\ UNCHANGED <<schema, ci, rows_to_drop, stages, flagged, kept, run, input0, out1, faulty>>

\* whether Series.apply over a Categorical column gives a result that ~ can
\* invert depends on the categories and on the pandas version: both outcomes
\* are taken where the rule can meet the case
Quirks(e) ==
    IF e.rule.custom_validator # "none" /\ (e.rule.allowed_values # {} \/ run = 2)
    THEN BOOLEAN ELSE {FALSE}

\* core.py: one turn of "for col, rule in schema.rules.items()"
ValidateColumn ==
    /\ pc = "cols"
    /\ \E quirk \in Quirks(schema.rules[ci]) :
       LET f == heap[cur]
           e == schema.rules[ci]
           missing == e.col \notin Columns
           x == IF missing
                THEN [New(f) EXCEPT !.rep = <<Msg("warning", "Column is missing", 0)>>]
                ELSE validate_column(f, e.col, e.rule, quirk)
           marks == UNION {x.log[i].mask : i \in {j \in DOMAIN x.log : x.log[j].stage # "unique"}}
       IN /\ heap' = [heap EXCEPT ![cur] = x.f]
          /\ rows_to_drop' = IF missing THEN rows_to_drop
                             ELSE OrAlign(rows_to_drop, Series(x.f, x.mask))
          /\ report' = report \o x.rep
          /\ faults' = faults + x.faults
          /\ stages' = IF missing THEN stages
                       ELSE [col |-> e.col, rule |-> e.rule, log |-> x.log, mask |-> x.mask]
          /\ flagged' = flagged \cup marks
          /\ pc' = IF x.exc THEN "raised" ELSE IF ci = Len(schema.rules) THEN "drop" ELSE "cols"
          /\ steplog' = Step("column", ci, x.faults > 0, f, x.f, xfailed)
          /\ faulty' = IF x.faults > 0 THEN faulty \cup {e.col} ELSE faulty
    /\ ci' = ci + 1
    /\ UNCHANGED <<cur, schema, xi, xfailed, evald, entered, kept, run, input0, out1>>

\* core.py: "if rows_to_drop.sum()", the removal, reset_index and the return
DropInvalidRows ==
    /\ pc = "drop"
    /\ LET f == heap[cur]
           n == Cardinality(Flagged(rows_to_drop))
           raises == n > 0 /\ ~(Labels(f) \subseteq DOMAIN rows_to_drop)
           keep == IF n > 0 /\ ~raises THEN {l \in Labels(f) : ~rows_to_drop[l]}
                   ELSE Labels(f)
       IN /\ heap' = [heap EXCEPT !.work = ResetIndex(Select(f, keep))]
          /\ cur' = "work"
          /\ report' = IF n > 0
                       THEN Append(report, Msg("info", "Dropping row(s) due to validation", n))
                       ELSE report
          /\ kept' = keep
          /\ pc' = IF raises THEN "raised" ELSE "done"
          /\ steplog' = Step("drop", 0, raises, f, Select(f, keep), xfailed)
    /\ UNCHANGED <<schema, xi, ci, rows_to_drop, stages, flagged, xfailed, evald, entered,
                   faults, run, input0, out1, faulty>>

\* the caller passes the table a first call returned to a second call
RunAgain ==
    /\ pc = "done"
    /\ run = 1
    /\ heap' = [in |-> heap[cur], work |-> EmptyFrame]
    /\ cur' = "in"
    /\ input0' = heap[cur]
    /\ out1' = [n |-> Len(heap[cur].rows), faults |-> faults, given |-> Len(input0.rows)]
    /\ faults' = 0
    /\ run' = 2
    /\ pc' = "start"
    /\ xi' = 1
    /\ ci' = 1
    /\ rows_to_drop' = <<>>
    /\ report' = <<>>
    /\ stages' = NoStages
    /\ flagged' = {}
    /\ xfailed' = {}
    /\ evald' = <<>>
    /\ entered' = {}
    /\ kept' = {}
    /\ steplog' = NoStep
    /\ faulty' = {}
    /\ UNCHANGED schema

Next ==
    \/ CopyInput
    \/ ValidateDataframe
    \/ CrossValidation
    \/ ValidateColumn
    \/ DropInvalidRows

NextTwice ==
    \/ CopyInput
    \/ ValidateDataframe
    \/ CrossValidation
    \/ ValidateColumn
    \/ DropInvalidRows
    \/ RunAgain

(***************************************************************************)
(* Input families.                                                         *)
(***************************************************************************)
\* the tables of exactly k rows with index 0..k-1, column a over A, column b over B
Frames(k, A, B) ==
    {[rows |-> [i \in 1..k |-> [lab |-> i - 1, a |-> va[i], b |-> vb[i]]], cat |-> {}] :
        va \in [1..k -> A], vb \in [1..k -> B]}
Tables(n, A, B) == UNION {Frames(k, A, B) : k \in 0..n}

AVals == {Null, IntV(1), IntV(3), StrV("01"), StrV("x")}
BVals == {IntV(1), IntV(2)}

Schema(rules, has_df, df_rule) == [rules |-> rules, has_df |-> has_df, dataframe_rule |-> df_rule]
On(c, rule) == [col |-> c, rule |-> rule]

\* the checks a rule enables, by family
Pack(k) ==
    CASE k = 1 -> [ColumnRule EXCEPT !.regex = Regex(Digits), !.dtype = "int", !.min = <<2>>]
      [] k = 2 -> [ColumnRule EXCEPT !.dtype = "int", !.max = <<2>>, !.custom_validator = "gt1"]
      [] k = 3 -> [ColumnRule EXCEPT !.allowed_values = {IntV(1), IntV(3)}, !.unique = TRUE]
      [] k = 4 -> [ColumnRule EXCEPT !.min = <<2>>, !.custom_validator = "isint"]
      [] k = 5 -> [ColumnRule EXCEPT !.dtype = "string", !.regex = Regex({"01", "1"}),
                                     !.unique = TRUE]

RuleB == [ColumnRule EXCEPT !.min = <<2>>, !.drop_if_invalid = TRUE]

CmpDrop == Check("comparison", "drop", "a <= b", "")
CondDrop == Check("conditional", "drop", "a.notnull()", "b > 1")

(***************************************************************************)
(* Spec: both columns vary; the rule of column a is in drop or in fill     *)
(* mode, column b has a drop rule, a table rule may remove rows first.     *)
(***************************************************************************)
RulesA ==
    {[Pack(k) EXCEPT !.drop_if_invalid = d, !.allow_null = FALSE, !.fillna = fl] :
        k \in 1..5, d \in BOOLEAN, fl \in {NoFill, Lit(IntV(2))}}

Schemas ==
    {Schema(<<On("a", ra), On("b", RuleB)>>, FALSE, DataFrameRule) : ra \in RulesA}
    \cup {Schema(<<On("b", RuleB), On("c", ColumnRule), On("a", ra)>>, TRUE,
                 [DataFrameRule EXCEPT !.no_duplicates = TRUE, !.cross_validations = <<CmpDrop>>]) :
             ra \in RulesA}

Init == \E t \in Tables(MaxRows, AVals, BVals), s \in Schemas : InitWith(t, s)

Spec == Init /\ [][Next]_vars

(***************************************************************************)
(* SpecUnique: column a holds up to MaxRowsU values, its rule asks for     *)
(* uniqueness without a resolver, alone or after a min that clamps.        *)
(***************************************************************************)
UVals == {Null, IntV(1), IntV(2), IntV(3)}
AggWarn == Check("aggregate", "warn", "len(df) > 1", "")

RulesU ==
    {[ColumnRule EXCEPT !.unique = TRUE],
     [ColumnRule EXCEPT !.unique = TRUE, !.min = <<2>>]}

SchemasU ==
    {Schema(<<On("a", r)>>, FALSE, DataFrameRule) : r \in RulesU}
    \cup {Schema(<<On("a", r)>>, TRUE, [DataFrameRule EXCEPT !.cross_validations = <<AggWarn>>]) :
             r \in RulesU}

InitUnique == \E t \in Tables(MaxRowsU, UVals, {IntV(1)}), s \in SchemasU : InitWith(t, s)

SpecUnique == InitUnique /\ [][Next]_vars

(***************************************************************************)
(* Claims.                                                                 *)
(***************************************************************************)
Output == heap[cur]
Texts == {report[i].text : i \in DOMAIN report}

\* C1: every row that a value check of a rule with drop_if_invalid=true marked
\* for drop (null policy, pattern, type coercion, min, max, allowed values,
\* custom predicate; of any column) is absent from the table the run returns,
\* and the returned table holds exactly the rows the removal kept.
C1_FlaggedRowsAbsent ==
    pc = "done" => /\ kept \cap flagged = {}
                   /\ Len(Output.rows) = Cardinality(kept)

\* a run ended in which a column stage flagged a row and another row survived
C1_Witness ==
    /\ pc = "done"
    /\ kept # {}
    /\ flagged # {}
    /\ Len(Output.rows) < Cardinality(entered)

\* C2: while the declared columns are processed the index of the working table
\* stays what it was when per-column validation began: every stage of every
\* column sees every row, flagged ones included, and the flagged rows leave in
\* the one removal after the last column.
C2_DropsDeferred ==
    /\ pc \in {"cols", "drop"} => Labels(heap[cur]) = entered
    /\ steplog.kind = "column" => Labels(steplog.after) = Labels(steplog.before)
    /\ pc \in {"cols", "drop", "done"} =>
          \A i \in DOMAIN stages.log : stages.log[i].seen = entered
    /\ pc = "done" => kept = entered \ Flagged(rows_to_drop)

\* a row flagged while an earlier column was processed is still in the table
\* that the stages of a later column saw
C2_Witness ==
    /\ pc = "drop"
    /\ flagged \ stages.mask # {}
    /\ Len(stages.log) > 1
    /\ \A i \in DOMAIN stages.log : flagged \subseteq stages.log[i].seen

\* C3: the value checks of a rule with drop_if_invalid = FALSE flag nothing:
\* the mask of every stage but the uniqueness stage is empty, so the mask
\* validate_column returns holds the rows the uniqueness stage marked and no
\* other, and what core.py adds to rows_to_drop for the column is that mask.
UniqueMarks == UNION {stages.log[i].mask : i \in {j \in DOMAIN stages.log :
                                                   stages.log[j].stage = "unique"}}
C3_FillModeNeverFlags ==
    ~stages.rule.drop_if_invalid =>
        /\ \A i \in DOMAIN stages.log :
              stages.log[i].stage # "unique" => stages.log[i].mask = {}
        /\ stages.mask = UniqueMarks
        /\ (~stages.rule.unique => stages.mask = {})

\* a fill-mode rule found an invalid value and replaced it
C3_Witness ==
    /\ ~stages.rule.drop_if_invalid
    /\ \E i \in DOMAIN stages.log :
          /\ stages.log[i].stage \in {"null", "regex", "min", "max", "allowed", "custom"}
          /\ stages.log[i].before # stages.log[i].after
          /\ ~stages.log[i].raised
    /\ stages.mask = {}

\* C4: with unique and no resolver, the uniqueness stage flags a row exactly
\* when an earlier row (by row order, which is label order) holds the same
\* value: the first row of every group is kept, every other row of the group
\* is flagged, a value that occurs once is not flagged; the values
\* [1,2,2,3,1] flag rows 2 and 4 and no other.
UniqueEntries == {i \in DOMAIN stages.log : stages.log[i].stage = "unique"}
Example4 == (0 :> IntV(1)) @@ (1 :> IntV(2)) @@ (2 :> IntV(2)) @@ (3 :> IntV(3)) @@ (4 :> IntV(1))
C4_KeepsFirstOfGroup ==
    (stages.rule.unique /\ stages.rule.resolve_duplicates = "none") =>
        \A i \in UniqueEntries :
            LET e == stages.log[i]
            IN /\ ~e.raised
               /\ \A l \in e.seen :
                     l \in e.mask <=> \E m \in e.seen : m < l /\ e.before[m] = e.before[l]
               /\ e.before = Example4 => e.mask = {2, 4}

\* the run on the values [1,2,2,3,1] ended with rows 2 and 4 removed
C4_Witness ==
    /\ pc = "done"
    /\ \E i \in UniqueEntries : stages.log[i].before = Example4 /\ stages.log[i].mask = {2, 4}
    /\ kept = {0, 1, 3}

(***************************************************************************)
(* SpecTable: a table rule with two cross-validation checks, with the      *)
(* advisory rules or with no_duplicates, before one column rule.           *)
(***************************************************************************)
TVals == {Null, IntV(1), IntV(3), StrV("x")}
CmpWarn == Check("comparison", "warn", "a > 1", "")
AggDrop == Check("aggregate", "drop", "df['a'].notnull().all()", "")
BadExpr == Check("comparison", "drop", "no_such_column > 0", "")
CondNoAction == Check("conditional", "", "a.notnull()", "b > 1")
ChecksT == {CmpDrop, CmpWarn, CondDrop, CondNoAction, AggDrop, BadExpr}

Advisory ==
    [DataFrameRule EXCEPT !.min_rows = <<2>>, !.max_rows = <<1>>, !.unique_keys = <<"b">>,
                          !.expected_columns = <<"a", "c">>]
TableRules == {Advisory, [DataFrameRule EXCEPT !.no_duplicates = TRUE]}

SchemasT ==
    {Schema(<<On("a", [ColumnRule EXCEPT !.min = <<2>>, !.drop_if_invalid = TRUE])>>, TRUE,
            [r EXCEPT !.cross_validations = <<c1, c2>>]) :
        r \in TableRules, c1 \in ChecksT, c2 \in ChecksT}

InitTable == \E t \in Tables(MaxRows, TVals, BVals), s \in SchemasT : InitWith(t, s)

SpecTable == InitTable /\ [][Next]_vars

CrossChecks == schema.dataframe_rule.cross_validations
UpTo(n) == [i \in 1..n |-> i]

\* C5: a comparison or conditional check with action drop removes its failing
\* rows in its own step: the table it leaves holds none of them, and no later
\* check, no stage of a column rule and no final output holds a row that an
\* earlier check reported as dropped.
C5_CheckDropsAtOnce ==
    /\ steplog.kind = "check" => Labels(steplog.after) \cap xfailed = {}
    /\ steplog.kind \in {"check", "column", "drop"} =>
          Labels(steplog.before) \cap steplog.gone = {}
    /\ \A i \in DOMAIN stages.log : stages.log[i].seen \cap xfailed = {}
    /\ pc \in {"cols", "drop"} => Labels(heap[cur]) \cap xfailed = {}
    /\ pc = "done" => kept \cap xfailed = {}

\* the first check dropped a row, the second check and the column rule ran on
\* the rest
C5_Witness ==
    /\ pc = "done"
    /\ CrossChecks[1] \in {CmpDrop, CondDrop}
    /\ evald = UpTo(2)
    /\ xfailed # {}
    /\ stages.log # <<>>
    /\ \A i \in DOMAIN stages.log : stages.log[i].seen = entered
    /\ kept # {}

\* C7: a check that raises appends its error message and leaves the table
\* and the rows dropped so far as they were; the loop goes on with the next
\* check, so every check of cross_validations is evaluated, in order.
C7_RaisingCheckSkipped ==
    /\ (steplog.kind = "check" /\ steplog.raised) =>
          /\ steplog.after = steplog.before
          /\ heap[cur] = steplog.before
          /\ xfailed = steplog.gone
          /\ report # <<>>
          /\ report[Len(report)] = Msg("error", "Error evaluating cross-validation", 0)
          /\ pc = IF steplog.idx < Len(CrossChecks) THEN "cross" ELSE AfterTable
    /\ steplog.kind = "check" => evald = UpTo(steplog.idx)
    /\ (pc \in {"cols", "drop", "done"} /\ schema.has_df
         /\ "Unexpected error in DataFrame validation" \notin Texts) =>
          evald = UpTo(Len(CrossChecks))

\* the first check raised, the second one was evaluated and dropped a row
C7_Witness ==
    /\ pc = "done"
    /\ CrossChecks[1] = BadExpr
    /\ "Error evaluating cross-validation" \in Texts
    /\ evald = UpTo(2)
    /\ xfailed # {}

\* C9: the structural checks of a table rule without no_duplicates (min_rows,
\* max_rows, unique_keys, expected_columns) and every check that is an
\* aggregate or whose action is not drop leave the table as it was and
\* report no row as dropped.
C9_AdvisoryKeepsRows ==
    /\ (steplog.kind = "table" /\ ~schema.dataframe_rule.no_duplicates) =>
          steplog.after = steplog.before /\ heap[cur] = steplog.before
    /\ (steplog.kind = "check"
         /\ (CrossChecks[steplog.idx].type = "aggregate"
             \/ CrossChecks[steplog.idx].action # "drop")) =>
          /\ steplog.after = steplog.before
          /\ heap[cur] = steplog.before
          /\ xfailed = steplog.gone

\* every advisory rule was violated and warned, and the run kept all rows
C9_Witness ==
    /\ pc = "done"
    /\ {"more rows than max_rows", "Unique key constraint violated",
         "Missing expected columns", "Unexpected extra columns", "Check failed",
         "Aggregate check failed and cannot drop rows"} \subseteq Texts
    /\ Len(Output.rows) = Len(input0.rows)

(***************************************************************************)
(* SpecFaults: every combination of a malformed pattern, an aggregate fill *)
(* that cannot be computed, an unknown dtype, a min that cannot be         *)
(* compared, a raising validator and a raising resolver on column a, after *)
(* no table rule, a check that cannot be evaluated, or unique_keys naming  *)
(* a column the table lacks.                                               *)
(***************************************************************************)
FVals == {Null, IntV(1), StrV("x")}

FaultyRule(r, g, d, m, v, u) ==
    [ColumnRule EXCEPT !.regex = IF r THEN BadRegex ELSE NoRegex,
                       !.allow_null = ~g,
                       !.fillna = IF g THEN Agg("min") ELSE NoFill,
                       !.dtype = IF d THEN "bogus" ELSE "none",
                       !.min = IF m THEN <<2>> ELSE <<>>,
                       !.custom_validator = IF v THEN "boom" ELSE "none",
                       !.unique = u,
                       !.resolve_duplicates = IF u THEN "boom" ELSE "none"]

RulesF == {FaultyRule(r, g, d, m, v, u) : r \in BOOLEAN, g \in BOOLEAN, d \in BOOLEAN,
                                          m \in BOOLEAN, v \in BOOLEAN, u \in BOOLEAN}

TableRulesF ==
    {[DataFrameRule EXCEPT !.cross_validations = <<BadExpr, CmpDrop>>],
     [DataFrameRule EXCEPT !.no_duplicates = TRUE, !.unique_keys = <<"k">>,
                           !.cross_validations = <<CmpDrop>>]}

SchemasF ==
    {Schema(<<On("a", ra)>>, FALSE, DataFrameRule) : ra \in RulesF}
    \cup {Schema(<<On("a", ra), On("b", RuleB)>>, TRUE, t) : ra \in RulesF, t \in TableRulesF}

InitFaults == \E t \in Tables(MaxRows, FVals, {IntV(1)}), s \in SchemasF : InitWith(t, s)

SpecFaults == InitFaults /\ [][Next]_vars

Errors == {i \in DOMAIN report : report[i].lvl = "error"}

\* C6: no exception leaves clean_and_validate: the run is never stopped by
\* a fault, until it has returned it stands before a step it can take (a
\* check or a column rule that exists); every fault raised so far is an error
\* message of the report; the run returns a table indexed from zero.
C6_NoFaultEscapes ==
    /\ pc \in {"start", "table", "cross", "cols", "drop", "done"}
    /\ pc = "cross" => xi \in DOMAIN CrossChecks
    /\ pc = "cols" => ci \in DOMAIN schema.rules
    /\ Cardinality(Errors) = faults
    /\ pc = "done" =>
          /\ cur = "work"
          /\ Labels(Output) = 0..(Len(Output.rows) - 1)
          /\ Len(Output.rows) = Cardinality(kept)

\* a run returned after a malformed pattern, a failed aggregate fill, an
\* unknown dtype and a raising validator on one column
C6_Witness ==
    /\ pc = "done"
    /\ {"Invalid regex pattern", "Failed to compute fill", "Failed type conversion",
         "Error applying custom validator"} \subseteq Texts
    /\ faults >= 4

(***************************************************************************)
(* SpecTwice: a schema whose column rules all drop, without uniqueness and *)
(* without fill, is run on a table and then on the table that run returned.*)
(***************************************************************************)
LeadingZero == {"01", "02", "03", "04"}

DropPack(k) ==
    CASE k = 1 -> [ColumnRule EXCEPT !.regex = Regex(LeadingZero), !.dtype = "int"]
      [] k = 2 -> [ColumnRule EXCEPT !.min = <<2>>]
      [] k = 3 -> [ColumnRule EXCEPT !.dtype = "int", !.min = <<2>>, !.allow_null = FALSE]
      [] k = 4 -> [ColumnRule EXCEPT !.allowed_values = {IntV(1), IntV(3)}, !.max = <<2>>]
      [] k = 5 -> [ColumnRule EXCEPT !.regex = Regex(Digits), !.max = <<2>>]
      [] k = 6 -> [ColumnRule EXCEPT !.custom_validator = "isint", !.allow_null = FALSE]

RulesD == {[DropPack(k) EXCEPT !.drop_if_invalid = TRUE] : k \in 1..6}

SchemasD ==
    {Schema(<<On("a", r)>>, FALSE, DataFrameRule) : r \in RulesD}
    \cup {Schema(<<On("a", r), On("b", RuleB)>>, FALSE, DataFrameRule) : r \in RulesD}
    \cup {Schema(<<On("a", r)>>, TRUE,
                 [DataFrameRule EXCEPT !.no_duplicates = TRUE, !.cross_validations = <<CmpDrop>>]) :
             r \in RulesD}
    \cup {Schema(<<On("b", RuleB), On("a", r)>>, TRUE,
                 [DataFrameRule EXCEPT !.cross_validations = <<CondDrop>>]) : r \in RulesD}

InitTwice == \E t \in Tables(MaxRows, AVals, BVals), s \in SchemasD : InitWith(t, s)

SpecTwice == InitTwice /\ [][NextTwice]_vars

RuleSet == {schema.rules[i].rule : i \in DOMAIN schema.rules}
DropOnly == \A r \in RuleSet : r.drop_if_invalid /\ ~r.unique /\ r.fillna = NoFill
NoCoercion == \A r \in RuleSet : r.dtype = "none"

Rank(p) ==
    CASE p = "start" -> 0
      [] p = "table" -> 1
      [] p = "cross" -> 2
      [] p = "cols" -> 3
      [] p = "drop" -> 4
      [] p = "done" -> 5
      [] OTHER -> 6
PhaseStep ==
    /\ Rank(pc') >= Rank(pc)
    /\ Rank(pc') <= 5
    /\ (pc = "start") => (pc' = "table")
    /\ (pc = "table") =>
          /\ pc' \in {"cross", "cols", "drop"}
          /\ steplog'.kind = "table"
          /\ (pc' = "cross") => (xi = 1 /\ evald = <<>>)
    /\ (pc = "cross") =>
          /\ pc' \in {"cross", "cols", "drop"}
          /\ steplog'.kind = "check"
          /\ steplog'.idx = xi
          /\ xi' = xi + 1
          /\ evald' = Append(evald, xi)
          /\ schema.dataframe_rule.no_duplicates => (Duplicated(heap[cur], Columns) = {})
    /\ (pc = "cols") =>
          /\ pc' \in {"cols", "drop"}
          /\ steplog'.kind = "column"
          /\ steplog'.idx = ci
          /\ ci' = ci + 1
          /\ (pc' = "drop") <=> (ci = Len(schema.rules))
          /\ (schema.rules[ci].col \in Columns) => (stages'.col = schema.rules[ci].col)
    /\ (pc = "drop") => (pc' = "done" /\ steplog'.kind = "drop")
    /\ (pc' = "cols" /\ pc # "cols") => (ci = 1)
C11_PhasesInOrder == [][PhaseStep]_vars

\* a run with duplicate removal, a check and three declared columns returned
C11_Witness ==
    /\ pc = "done"
    /\ "Removed duplicate row(s)" \in Texts
    /\ evald = <<1>>
    /\ Len(schema.rules) = 3
    /\ ci = 4
    /\ stages.col = "a"

\* C12: the accumulated mask flags only rows of the table as it stands after
\* cross-validation; the run returns exactly the rows of that table that no
\* column stage flagged, in their order, with the index 0..n-1; a drop message
\* is logged exactly when rows are removed and counts the rows removed.
DropMsgs == {i \in DOMAIN report : report[i].text = "Dropping row(s) due to validation"}
Survivors == LET In(r) == r.lab \in entered \ flagged IN SelectSeq(steplog.before.rows, In)
C12_FinalRemovalExact ==
    /\ (pc \in {"cols", "drop", "done"}) => (Flagged(rows_to_drop) \subseteq entered)
    /\ (pc = "drop") => (Flagged(rows_to_drop) = flagged)
    /\ (pc = "done") =>
          /\ kept = entered \ flagged
          /\ Labels(steplog.before) = entered
          /\ Len(Output.rows) = Len(Survivors)
          /\ \A i \in DOMAIN Output.rows :
                /\ Output.rows[i].lab = i - 1
                /\ Output.rows[i].a = Survivors[i].a
                /\ Output.rows[i].b = Survivors[i].b
          /\ Cardinality(DropMsgs) = (IF flagged = {} THEN 0 ELSE 1)
          /\ \A i \in DropMsgs :
                /\ i = Len(report)
                /\ report[i].n = Cardinality(entered) - Len(Output.rows)
                /\ report[i].n = Cardinality(flagged)

\* a check removed the first row, and the column rule flagged the row left,
\* whose label is 1 and whose position is 0
C12_Witness ==
    /\ pc = "done"
    /\ Len(input0.rows) = 2
    /\ xfailed = {0}
    /\ entered = {1}
    /\ flagged = {1}
    /\ Flagged(rows_to_drop) = {1}
    /\ DropMsgs # {}

\* C13: the stages of one column run in the order null handling, pattern,
\* type conversion, min, max, allowed values, custom predicate, uniqueness;
\* when none raised, every stage the rule asks for has run; the first stage
\* reads the column as the table holds it, every later stage reads the values
\* the stage before it left, and the table holds what the last stage left;
\* the mask of the column is the union of the masks of the stages.
StageRank(st) ==
    CASE st = "null" -> 1
      [] st = "regex" -> 2
      [] st = "dtype" -> 3
      [] st = "min" -> 4
      [] st = "max" -> 5
      [] st = "allowed" -> 6
      [] st = "custom" -> 7
      [] st = "unique" -> 8
Asked(r) ==
    {"null"} \cup (IF r.regex.kind # "none" THEN {"regex"} ELSE {})
             \cup (IF r.dtype # "none" THEN {"dtype"} ELSE {})
             \cup (IF r.min # <<>> THEN {"min"} ELSE {})
             \cup (IF r.max # <<>> THEN {"max"} ELSE {})
             \cup (IF r.allowed_values # {} THEN {"allowed"} ELSE {})
             \cup (IF r.custom_validator # "none" THEN {"custom"} ELSE {})
             \cup (IF r.unique THEN {"unique"} ELSE {})
StagesRun == {stages.log[i].stage : i \in DOMAIN stages.log}
C13_StagesInOrder ==
    (stages.log # <<>>) =>
        /\ \A i \in DOMAIN stages.log : \A j \in DOMAIN stages.log :
              (i < j) => (StageRank(stages.log[i].stage) < StageRank(stages.log[j].stage))
        /\ StagesRun \subseteq Asked(stages.rule)
        /\ (\A i \in DOMAIN stages.log : ~stages.log[i].raised) =>
              (StagesRun = Asked(stages.rule))
        /\ \A i \in DOMAIN stages.log :
              (i > 1) => (stages.log[i].before = stages.log[i - 1].after)
        /\ (steplog.kind = "column") =>
              /\ stages.log[1].before = Col(steplog.before, stages.col)
              /\ stages.log[Len(stages.log)].after = Col(steplog.after, stages.col)
        /\ stages.mask = UNION {stages.log[i].mask : i \in DOMAIN stages.log}

\* the pattern stage and the min stage flagged different rows, and the type
\* conversion between them changed a value
C13_Witness ==
    /\ Len(stages.log) >= 4
    /\ \E i \in DOMAIN stages.log : \E j \in DOMAIN stages.log :
          /\ stages.log[i].stage = "regex"
          /\ stages.log[j].stage = "min"
          /\ stages.log[i].mask # {}
          /\ stages.log[j].mask # {}
          /\ stages.log[i].mask # stages.log[j].mask
    /\ \E i \in DOMAIN stages.log :
          stages.log[i].stage = "dtype" /\ stages.log[i].before # stages.log[i].after

(***************************************************************************)
(* SpecCorrect: column a has a rule in fill mode that asks for uniqueness  *)
(* and for one correction: null fill, pattern replacement, coercion, min   *)
(* or max clamping, allowed-values replacement.                            *)
(***************************************************************************)
Correction(k) ==
    CASE k = 1 -> [ColumnRule EXCEPT !.allow_null = FALSE, !.fillna = Lit(IntV(1))]
      [] k = 2 -> [ColumnRule EXCEPT !.regex = Regex(Digits), !.fillna = Lit(IntV(1))]
      [] k = 3 -> [ColumnRule EXCEPT !.dtype = "int"]
      [] k = 4 -> [ColumnRule EXCEPT !.dtype = "int", !.min = <<3>>]
      [] k = 5 -> [ColumnRule EXCEPT !.dtype = "int", !.max = <<1>>]
      [] k = 6 -> [ColumnRule EXCEPT !.allowed_values = {IntV(1)}, !.fillna = Lit(IntV(1))]

RulesC == {[Correction(k) EXCEPT !.unique = TRUE] : k \in 1..6}

SchemasC ==
    {Schema(<<On("a", r)>>, FALSE, DataFrameRule) : r \in RulesC}
    \cup {Schema(<<On("a", r)>>, TRUE, [DataFrameRule EXCEPT !.cross_validations = <<AggWarn>>]) :
             r \in RulesC}

InitCorrect == \E t \in Tables(MaxRows, AVals, {IntV(1)}), s \in SchemasC : InitWith(t, s)

SpecCorrect == InitCorrect /\ [][Next]_vars

\* C14: the uniqueness stage reads the values the other stages of the column
\* left, which are the values the table holds afterwards: a row is flagged
\* exactly when an earlier row holds the same corrected value, whatever the
\* two rows held when the column was entered.
Original == stages.log[1].before
C14_UniqueAfterCorrections ==
    (stages.rule.unique /\ stages.rule.resolve_duplicates = "none") =>
        \A i \in UniqueEntries :
            LET e == stages.log[i]
            IN /\ i = Len(stages.log)
               /\ (i > 1) => (e.before = stages.log[i - 1].after)
               /\ (steplog.kind = "column") => (e.before = Col(steplog.after, stages.col))
               /\ \A l \in e.seen : \A m \in e.seen :
                     (m < l /\ e.before[m] = e.before[l]) => (l \in e.mask)
               /\ \A l \in e.mask : \E m \in e.seen : m < l /\ e.before[m] = e.before[l]

\* two rows entered the column with different values, a correction made them
\* equal, and the uniqueness stage flagged the second
C14_Witness ==
    /\ pc = "done"
    /\ \E i \in UniqueEntries :
          /\ stages.log[i].mask = {1}
          /\ Original[0] # Original[1]
          /\ stages.log[i].before[0] = stages.log[i].before[1]
    /\ kept = {0}

(***************************************************************************)
(* SpecCustom: the rule of column a has a custom validator that raises on  *)
(* text or on every value, after a null policy and a pattern that may flag *)
(* or replace, before uniqueness; column b has a rule of its own.          *)
(***************************************************************************)
WordOrDigits == Digits \cup {"x"}

CustomRule(d, p, v, u) ==
    [ColumnRule EXCEPT !.drop_if_invalid = d,
                       !.allow_null = FALSE,
                       !.fillna = IF d THEN NoFill ELSE Lit(IntV(2)),
                       !.regex = IF p THEN Regex(WordOrDigits) ELSE NoRegex,
                       !.custom_validator = v,
                       !.unique = u]

RulesV == {CustomRule(d, p, v, u) : d \in BOOLEAN, p \in BOOLEAN, v \in {"gt1", "boom"},
                                    u \in BOOLEAN}

SchemasV ==
    {Schema(<<On("a", r), On("b", RuleB)>>, FALSE, DataFrameRule) : r \in RulesV}
    \cup {Schema(<<On("a", r), On("b", RuleB)>>, TRUE,
                 [DataFrameRule EXCEPT !.cross_validations = <<AggWarn>>]) : r \in RulesV}

InitCustom == \E t \in Tables(MaxRows, AVals, BVals), s \in SchemasV : InitWith(t, s)

SpecCustom == InitCustom /\ [][Next]_vars

\* C15: when the custom validator raises, the custom stage reports an error,
\* changes no value and flags no row; the mask of the column is the union of
\* what the other stages flagged; the uniqueness stage runs after it when the
\* rule asks for it, and the loop goes on with the next declared column.
CustomRaised == {i \in DOMAIN stages.log : stages.log[i].stage = "custom" /\ stages.log[i].raised}
C15_RaisingValidatorSkipped ==
    \A i \in CustomRaised :
        /\ stages.log[i].mask = {}
        /\ stages.log[i].after = stages.log[i].before
        /\ stages.mask = UNION {stages.log[j].mask : j \in DOMAIN stages.log \ {i}}
        /\ UNION {stages.log[j].mask : j \in 1..(i - 1)} \subseteq stages.mask
        /\ stages.rule.unique => (i + 1 \in UniqueEntries)
        /\ (~stages.rule.unique) => (i = Len(stages.log))
        /\ (steplog.kind = "column" /\ steplog.idx = 1) =>
              /\ "Error applying custom validator" \in Texts
              /\ "Unexpected error handling column" \notin Texts
              /\ Flagged(rows_to_drop) = stages.mask
              /\ pc = "cols"
              /\ ci = 2

\* the validator raised after the null policy flagged a row, the uniqueness
\* stage ran, and the run went on to column b and returned
C15_Witness ==
    /\ pc = "done"
    /\ ci = 3
    /\ stages.col = "b"
    /\ "Error applying custom validator" \in Texts
    /\ "null(s) marked for drop" \in Texts
    /\ "Found duplicate value(s)" \in Texts

(***************************************************************************)
(* SpecPattern: column a has a pattern, nulls are allowed, the rule drops  *)
(* or replaces.                                                            *)
(***************************************************************************)
RulesP ==
    {[ColumnRule EXCEPT !.regex = Regex(Digits), !.drop_if_invalid = d, !.fillna = fl] :
        d \in BOOLEAN, fl \in {NoFill, Lit(IntV(2))}}

SchemasP ==
    {Schema(<<On("a", r)>>, FALSE, DataFrameRule) : r \in RulesP}
    \cup {Schema(<<On("a", r)>>, TRUE, [DataFrameRule EXCEPT !.cross_validations = <<AggWarn>>]) :
             r \in RulesP}

InitPattern == \E t \in Tables(MaxRows, AVals, {IntV(1)}), s \in SchemasP : InitWith(t, s)

SpecPattern == InitPattern /\ [][Next]_vars

\* C16: the pattern stage neither flags nor replaces a row whose value is
\* null when the stage runs.
PatternEntries == {i \in DOMAIN stages.log : stages.log[i].stage = "regex"}
C16_NullMatchesPattern ==
    \A i \in PatternEntries :
        \A l \in stages.log[i].seen :
            IsNull(stages.log[i].before[l]) =>
                /\ l \notin stages.log[i].mask
                /\ stages.log[i].after[l] = stages.log[i].before[l]

(***************************************************************************)
(* SpecDistinct: column a asks for uniqueness without a resolver, after a  *)
(* correction or beside a validator that raises; column b has a drop rule  *)
(* or a validator that raises, and is validated before or after a; a table *)
(* rule may remove rows first.                                             *)
(***************************************************************************)
DVals == {Null, IntV(1), StrV("01"), StrV("x")}

RulesDistinct ==
    RulesC
    \cup {[Correction(4) EXCEPT !.unique = TRUE, !.drop_if_invalid = TRUE],
          [ColumnRule EXCEPT !.unique = TRUE, !.custom_validator = "boom"]}

RulesOther == {RuleB, [ColumnRule EXCEPT !.custom_validator = "boom", !.drop_if_invalid = TRUE]}

SchemasDistinct ==
    {Schema(<<On("a", ra), On("b", rb)>>, FALSE, DataFrameRule) : ra \in RulesDistinct, rb \in RulesOther}
    \cup {Schema(<<On("b", rb), On("a", ra)>>, FALSE, DataFrameRule) :
             ra \in RulesDistinct, rb \in RulesOther}
    \cup {Schema(<<On("a", ra), On("b", rb)>>, TRUE,
                 [DataFrameRule EXCEPT !.no_duplicates = TRUE, !.cross_validations = <<CmpDrop>>]) :
             ra \in RulesDistinct, rb \in RulesOther}

InitDistinct == \E t \in Tables(MaxRows, DVals, BVals), s \in SchemasDistinct : InitWith(t, s)

SpecDistinct == InitDistinct /\ [][Next]_vars

\* C17: when the run has returned, for every column of the table whose rule
\* asks for uniqueness without a resolver and none of whose stages raised, no
\* two rows of the returned table hold the same value in that column, null
\* included, whatever the other column rules and the table rules did.
DistinctIn(f, c) ==
    \A p \in DOMAIN f.rows : \A q \in DOMAIN f.rows : (p # q) => (f.rows[p][c] # f.rows[q][c])

C17_UniqueColumnDistinct ==
    (pc = "done") =>
        \A i \in DOMAIN schema.rules :
            (/\ schema.rules[i].col \in Columns
             /\ schema.rules[i].rule.unique
             /\ schema.rules[i].rule.resolve_duplicates = "none"
             /\ schema.rules[i].col \notin faulty)
            => DistinctIn(Output, schema.rules[i].col)

C17_Witness ==
    /\ pc = "done"
    /\ schema.rules[1].col = "a"
    /\ schema.rules[1].rule.unique
    /\ faulty = {"b"}
    /\ Len(input0.rows) = 2
    /\ input0.rows[1].a # input0.rows[2].a
    /\ "Marked duplicate row(s) for removal" \in Texts
    /\ Len(Output.rows) = 1

\* C18: the uniqueness stage picks the keeper of a duplicate group among all
\* rows of the working table, flagged or not: a first occurrence that an
\* earlier stage or an earlier column flagged is the row kept by the stage,
\* every later occurrence is flagged, and the first occurrence stays flagged,
\* so that the final removal keeps no row of the group.
FirstOfGroup(e, m) == \A k \in e.seen : (k < m) => (e.before[k] # e.before[m])
LaterOfGroup(e, m) == {l \in e.seen : l > m /\ e.before[l] = e.before[m]}

C18_FlaggedKeeperStillKeeper ==
    (stages.rule.unique /\ stages.rule.resolve_duplicates = "none") =>
        \A i \in UniqueEntries :
            \A m \in stages.log[i].seen \cap flagged :
                FirstOfGroup(stages.log[i], m) =>
                    (/\ ~stages.log[i].raised
                     /\ m \notin stages.log[i].mask
                     /\ m \in Flagged(rows_to_drop)
                     /\ LaterOfGroup(stages.log[i], m) \subseteq stages.log[i].mask
                     /\ LaterOfGroup(stages.log[i], m) \subseteq Flagged(rows_to_drop)
                     /\ (pc = "done") => (kept \cap ({m} \cup LaterOfGroup(stages.log[i], m)) = {}))

\* the first occurrence was flagged by the type stage of the same column, the
\* second row was flagged by the uniqueness stage alone, the output is empty
C18_Witness ==
    /\ pc = "done"
    /\ stages.col = "a"
    /\ stages.rule.drop_if_invalid
    /\ \E i \in DOMAIN stages.log : stages.log[i].stage = "dtype" /\ stages.log[i].mask = {0}
    /\ \E i \in UniqueEntries : stages.log[i].mask = {1}
    /\ stages.mask = {0, 1}
    /\ flagged = {0}
    /\ faulty = {}
    /\ Len(input0.rows) = 2
    /\ Output.rows = <<>>

\* C8: the caller's table is the same after the call as before it.
C8_InputUntouched == heap["in"] = input0

\* a run that filled values in place and removed rows
C8_Witness ==
    /\ pc = "done"
    /\ "Filled null(s)" \in Texts
    /\ "Dropping row(s) due to validation" \in Texts
    /\ Output # input0

====
